---- MODULE Spec2Model ----
(***************************************************************************)
(* Model of scripts/py-scripts/main.py: the recursive accumulator add_num, *)
(* decorated with @observe, the interpreter's recursion ceiling set by     *)
(* sys.setrecursionlimit, and the module-level statements that call        *)
(* add_num(2, 1), fetch the telemetry client and flush it.                 *)
(*                                                                         *)
(* The call stack is kept as the number of active add_num activations and  *)
(* the locals of the innermost one: line 21 is `return add_num(...)`, so a *)
(* caller reads none of its own locals once its callee is entered.         *)
(* The name add_num is bound to the decorated function, so the recursive   *)
(* call on line 21 goes through the decorator like the top-level one.      *)
(* The observations are kept as the root observation (the one with no      *)
(* parent) and the number of nested ones.                                  *)
(* Python integers are unbounded, so no wrap-around is modelled.           *)
(***************************************************************************)
EXTENDS Integers, Sequences, FiniteSets, TLC

\* ---------------------------------------------------------------- constants

\* main.py:19  `if (start) >= 4000`
Threshold == 4000

\* Mutant: the interpreter's default ceiling, as if line 5 were missing.
DefaultRecursionLimit == 10 * 100

\* main.py:5   `sys.setrecursionlimit(10000)`
RecursionLimit == 10000

\* main.py:24  `add_num(2, 1)`
EntryArgs == <<2, 1>>

\* ------------------------------------------------------------------- bounds

\* Starts within StartSpan of the threshold, increments within MaxAdd of 0.
StartSpan == 3
MaxAdd == 3

\* The scenarios of the specification's section 8, the entry-point call, and
\* one call too deep for the recursion ceiling.
ScenarioInputs ==
    {EntryArgs, <<4000, 5>>, <<3999, 1>>, <<10, 0>>, <<5000, -3>>,
     <<-10000, 1>>}

\* Calls near the threshold, with positive, zero and negative increments.
NearInputs ==
    ((Threshold - StartSpan)..(Threshold + StartSpan)) \X ((-MaxAdd)..MaxAdd)

Inputs == ScenarioInputs \cup NearInputs

\* -------------------------------------------------------------------- state

VARIABLES
    args,          \* <<start, add>> of the top-level call
    pc,            \* position of the module-level code
    depth,         \* number of active add_num activations
    frame,         \* <<start, add>> of the innermost activation, NoFrame
                   \* before the call and once that activation is left
    ret,           \* the value being returned, NoResult while none is
    exc,           \* TRUE while a RecursionError propagates
    observations,  \* observations recorded by @observe, not yet flushed
    delivered,     \* observations delivered by flush
    client,        \* TRUE once get_client() has handed out the singleton
    flushes        \* number of flush() invocations

vars == <<args, pc, depth, frame, ret, exc, observations, delivered, client, flushes>>

NoResult == <<>>
NoFrame == <<>>
NoObservations == [root |-> <<>>, nested |-> 0]

\* main.py:20  f"The sum is {total}"
FormatSum(total) == <<"The sum is ", total>>

\* Mutant: the terminal test with > in place of >=.
IsTerminalStrict(start) == start > Threshold

\* main.py:19  the terminal test
IsTerminal(start) == start >= Threshold

\* Mutant: the terminal case formats start alone.
TerminalTotalNoAdd(start, add) == start

\* main.py:20  the value formatted in the terminal case
TerminalTotal(start, add) == start + add

\* Mutant: the recursive call advances by one instead of by add.
RecursiveArgsUnit(start, add) == <<start + 1, add>>

\* main.py:21  the arguments of the recursive call
RecursiveArgs(start, add) == <<start + add, add>>

\* main.py:5   a call needs a free slot under the recursion ceiling; the
\* module-level frame occupies one.
CanCall(d) == d + 1 + 1 <= RecursionLimit

\* Mutant: only the outermost call is observed, as if the recursive call
\* bypassed the decorator.
RecordRootOnly(buffer, out, d) ==
    IF d = 1
    THEN [buffer EXCEPT !.root =
             Append(@, [start |-> args[1], add |-> args[2], output |-> out])]
    ELSE buffer

\* main.py:8   @observe: every decorated call that ends records one
\* observation. The outermost activation (d = 1) has no parent: its
\* observation is the root, holding the top-level call's inputs and its
\* output; the others are nested under their callers'.
RecordSpan(buffer, out, d) ==
    IF d = 1
    THEN [buffer EXCEPT !.root =
             Append(@, [start |-> args[1], add |-> args[2], output |-> out])]
    ELSE [buffer EXCEPT !.nested = @ + 1]

\* Number of observations in a buffer.
Count(buffer) == Len(buffer.root) + buffer.nested

\* --------------------------------------------------------------------- init

InitCommon ==
    /\ pc = "call"
    /\ depth = 0
    /\ frame = NoFrame
    /\ ret = NoResult
    /\ exc = FALSE
    /\ observations = NoObservations
    /\ delivered = NoObservations
    /\ client = FALSE
    /\ flushes = 0

\* add_num applied to each of the bounded inputs.
Init == args \in Inputs /\ InitCommon

\* The script as written.
MainInit == args = EntryArgs /\ InitCommon

\* ------------------------------------------------------------------ actions

\* main.py:24  the top-level call enters add_num.
Call ==
    /\ pc = "call"
    /\ pc' = "running"
    /\ depth' = 1
    /\ frame' = args
    /\ UNCHANGED <<args, ret, exc, observations, delivered, client, flushes>>

\* main.py:19-21  the body of the innermost activation.
Step ==
    /\ pc = "running"
    /\ frame # NoFrame
    /\ ret = NoResult
    /\ ~exc
    /\ IF IsTerminal(frame[1])
       THEN \* line 20: return the formatted sum
            /\ ret' = FormatSum(TerminalTotal(frame[1], frame[2]))
            /\ observations' = RecordSpan(observations, ret', depth)
            /\ depth' = depth - 1
            /\ frame' = NoFrame
            /\ UNCHANGED exc
       ELSE IF CanCall(depth)
       THEN \* line 21: the recursive call
            /\ depth' = depth + 1
            /\ frame' = RecursiveArgs(frame[1], frame[2])
            /\ UNCHANGED <<ret, exc, observations>>
       ELSE \* line 21: the call exceeds the recursion ceiling
            /\ exc' = TRUE
            /\ UNCHANGED <<depth, frame, ret, observations>>
    /\ UNCHANGED <<args, pc, delivered, client, flushes>>

\* main.py:21  `return add_num(...)`: the activation passes on what its
\* callee returned, or the RecursionError raised in or under it.
Unwind ==
    /\ pc = "running"
    /\ depth > 0
    /\ (ret # NoResult \/ exc)
    /\ observations' = RecordSpan(observations, ret, depth)
    /\ depth' = depth - 1
    /\ frame' = NoFrame
    /\ UNCHANGED <<args, pc, ret, exc, delivered, client, flushes>>

\* main.py:24  the top-level call is over: the result is discarded, or the
\* uncaught RecursionError ends the script.
CallReturns ==
    /\ pc = "running"
    /\ depth = 0
    /\ pc' = IF exc THEN "crashed" ELSE "get_client"
    /\ UNCHANGED <<args, depth, frame, ret, exc, observations, delivered, client, flushes>>

\* main.py:27  langfuse = get_client()
GetClient ==
    /\ pc = "get_client"
    /\ client' = TRUE
    /\ pc' = "flush"
    /\ UNCHANGED <<args, depth, frame, ret, exc, observations, delivered, flushes>>

\* Mutant: the script ends without flushing.
FlushSkipped ==
    /\ pc = "flush"
    /\ pc' = "exited"
    /\ UNCHANGED <<args, depth, frame, ret, exc, observations, delivered, client, flushes>>

\* main.py:28  langfuse.flush()
Flush ==
    /\ pc = "flush"
    /\ client
    /\ flushes' = flushes + 1
    /\ delivered' = [root |-> delivered.root \o observations.root,
                     nested |-> delivered.nested + observations.nested]
    /\ observations' = NoObservations
    /\ pc' = "exited"
    /\ UNCHANGED <<args, depth, frame, ret, exc, client>>

Next == Call \/ Step \/ Unwind \/ CallReturns \/ GetClient \/ Flush

Spec == Init /\ [][Next]_vars

MainSpec == MainInit /\ [][Next]_vars

\* ------------------------------------------------ what the claims speak of

\* Repeated addition of add to start reaches the threshold.
Reaches(a) == a[1] >= Threshold \/ a[2] > 0

\* Number of additions until the sequence start, start+add, ... is >= 4000
\* (for inputs that reach it).
StepsToThreshold(a) ==
    IF a[1] >= Threshold THEN 0 ELSE (Threshold - a[1] + a[2] - 1) \div a[2]

\* First value >= 4000 of the sequence start, start+add, start+2*add, ...
FirstReached(a) == a[1] + StepsToThreshold(a) * a[2]

\* ceil((4000 - start) / add) + 1
PeakActivations(a) == StepsToThreshold(a) + 1

\* The top-level call is over.
CallOver == pc \notin {"call", "running"}

\* --------------------------------------------------------------------- C1

\* C1 (as claimed): for every start < 4000 and add > 0 the call terminates
\* and returns "The sum is T + add", T the first value >= 4000 of the
\* sequence start, start+add, ...: no RecursionError is ever raised, and once
\* the call is over its result is that string.
C1_ReturnsSumPastThreshold ==
    (args[1] < Threshold /\ args[2] > 0) =>
        /\ ~exc
        /\ CallOver => ret = FormatSum(FirstReached(args) + args[2])

\* --------------------------------------------------------------------- C2

\* C2 (as claimed): the total in the returned string is the smallest value
\* start + k*add (k >= 0) that is >= 4000.
C2_SmallestValueReturned ==
    ret # NoResult =>
        /\ Reaches(args)
        /\ ret = FormatSum(FirstReached(args))

\* C2 (amended): whenever add_num(start, add) returns, it returns
\* "The sum is T + add", where T is the smallest value start + k*add
\* (k >= 0) that is >= 4000: one increment more than T.
C2_SmallestValuePlusAdd ==
    ret # NoResult =>
        /\ Reaches(args)
        /\ ret = FormatSum(FirstReached(args) + args[2])

\* A call that took two additions to pass the threshold has returned.
C2_Witness ==
    /\ pc = "exited"
    /\ ret # NoResult
    /\ StepsToThreshold(args) = 2
    /\ args[2] > 1

\* --------------------------------------------------------------------- C3

\* C3: for start >= 4000 and any add, the call returns
\* "The sum is start + add" in a single step: there is never a second
\* activation, nothing is raised, no nested observation is recorded, and
\* once the call is over the result is that string.
C3_TerminalSingleStep ==
    args[1] >= Threshold =>
        /\ depth <= 1
        /\ ~exc
        /\ Count(observations) + Count(delivered) <= 1
        /\ observations.nested = 0 /\ delivered.nested = 0
        /\ CallOver => ret = FormatSum(args[1] + args[2])

\* add_num(5000, -3) has returned "The sum is 4997".
C3_Witness ==
    /\ args = <<5000, -3>>
    /\ CallOver
    /\ ret = FormatSum(4997)

\* --------------------------------------------------------------------- C4

\* C4 (as claimed): a call with add <= 0 and start < 4000 never returns a
\* result string, and it is the only kind of call that fails.
C4_OnlyUnboundedFails ==
    /\ (args[2] <= 0 /\ args[1] < Threshold) => ret = NoResult
    /\ (exc \/ pc = "crashed") => (args[2] <= 0 /\ args[1] < Threshold)

\* --------------------------------------------------------------------- C5

\* C5 (as claimed): the call terminates exactly when start >= 4000 or
\* add > 0; otherwise it keeps stepping forever, so it is always still
\* running and nothing ever stops it.
C5_TerminatesIffReaches ==
    IF Reaches(args)
    THEN pc # "crashed"
    ELSE pc \in {"call", "running"} /\ ~exc

\* --------------------------------------------------------------------- C6

\* C6: in a run of the script, flush is invoked at most once, never while
\* the call add_num(2, 1) is in progress, and only after that call has
\* returned "The sum is 4001"; the run then ends normally: it stops only
\* after exactly one flush, with exactly one top-level invocation observed,
\* and never with an uncaught error.
C6_FlushOnceAfterCall ==
    /\ flushes <= 1
    /\ pc \in {"call", "running"} => flushes = 0
    /\ flushes = 1 => (depth = 0 /\ ret = FormatSum(4001))
    /\ pc = "flush" => (client /\ depth = 0 /\ ret = FormatSum(4001))
    /\ pc # "crashed"
    /\ ~(ENABLED Next) =>
          /\ pc = "exited"
          /\ flushes = 1
          /\ Len(delivered.root) = 1

\* The run has ended after its one flush.
C6_Witness ==
    /\ pc = "exited"
    /\ flushes = 1
    /\ ret = FormatSum(4001)

\* --------------------------------------------------------------------- C7

\* C7 (as claimed): exactly one observation is recorded before the flush,
\* carrying start = 2, add = 1 and the final result; the recursive steps
\* record none.
C7_SingleObservation ==
    pc = "flush" =>
        /\ observations.root =
              <<[start |-> 2, add |-> 1, output |-> FormatSum(4001)]>>
        /\ observations.nested = 0

\* C7 (amended): before the flush exactly one root observation is recorded,
\* carrying start = 2, add = 1 and the final result as its output; every
\* recursive activation also records an observation of its own, nested
\* under its caller's: 3999 observations in all.
C7_OneRootObservation ==
    pc = "flush" =>
        /\ observations.root =
              <<[start |-> 2, add |-> 1, output |-> FormatSum(4001)]>>
        /\ observations.nested = PeakActivations(EntryArgs) - 1
        /\ Count(observations) = 3999
        /\ Count(delivered) = 0

\* The script stands before its flush with the observations recorded.
C7_Witness ==
    /\ pc = "flush"
    /\ Count(observations) > 1
    /\ flushes = 0

\* --------------------------------------------------------------------- C8

\* The accumulator's two states: Accumulating while the innermost
\* activation's start is below the threshold and no result exists, Done
\* once the result exists.
Accumulating == frame # NoFrame /\ ret = NoResult /\ frame[1] < Threshold
Done == ret # NoResult

\* C8 (as claimed): a step taken while Accumulating is start := start + add
\* and nothing else; the result appears exactly when the start is >= 4000;
\* once Done, no further accumulation happens and the result never changes.
C8_StepOfTwoStateMachine ==
    /\ Accumulating =>
          /\ frame' = <<frame[1] + frame[2], frame[2]>>
          /\ depth' = depth + 1
          /\ ret' = NoResult
          /\ ~exc'
    /\ (~Done /\ Done') => (frame # NoFrame /\ frame[1] >= Threshold)
    /\ (frame # NoFrame /\ ~Done /\ frame[1] >= Threshold) => Done'
    /\ Done => (ret' = ret /\ depth' <= depth /\ frame' = NoFrame)

\* C8 (as claimed): every step of the accumulator is a step of the
\* two-state machine Accumulating -> Accumulating | Done, Done terminal and
\* its result immutable.
C8_TwoStateMachine == [][C8_StepOfTwoStateMachine]_vars

\* --------------------------------------------------------------------- C9

\* The activation reached after k steps holds the caller's add and the
\* running total start + k*add.
C9_TotalAfterSteps ==
    frame # NoFrame =>
        /\ frame[2] = args[2]
        /\ frame[1] = args[1] + (depth - 1) * args[2]

\* An accumulation step changes the running total by exactly add (so it
\* strictly increases when add > 0) and leaves add unchanged.
C9_AccumulationStep ==
    (depth >= 1 /\ depth' = depth + 1) =>
        /\ frame'[1] = frame[1] + frame[2]
        /\ frame'[2] = frame[2]
        /\ frame[2] > 0 => frame'[1] > frame[1]

\* C9: at every accumulation step the running total changes by exactly the
\* increment and the increment is unchanged; every activation sees the add
\* the caller supplied, and after k steps the running total is the caller's
\* start + k*add.
C9_TotalAdvancesByAdd == []C9_TotalAfterSteps /\ [][C9_AccumulationStep]_vars

\* Two steps of an increment larger than one have been taken.
C9_Witness ==
    /\ depth = 3
    /\ args[2] > 1
    /\ frame = <<args[1] + 2 * args[2], args[2]>>

\* -------------------------------------------------------------------- C10

\* For start < 4000 and add > 0 the nesting of activations never exceeds
\* ceil((4000 - start) / add) + 1 and equals it when the terminal activation
\* runs; the entry-point call peaks at 3999, below the ceiling of 10000, and
\* never raises; a call whose peak exceeds the ceiling yields no result and
\* ends in the error.
C10_Depth ==
    /\ (args[1] < Threshold /\ args[2] > 0) =>
          /\ depth <= PeakActivations(args)
          /\ (frame # NoFrame /\ IsTerminal(frame[1])) =>
                depth = PeakActivations(args)
          /\ PeakActivations(args) > RecursionLimit =>
                /\ ret = NoResult
                /\ depth < RecursionLimit
                /\ CallOver => pc = "crashed"
    /\ args = EntryArgs =>
          /\ PeakActivations(args) = 3999
          /\ PeakActivations(args) < RecursionLimit
          /\ ~exc
          /\ pc # "crashed"

\* An activation ends only once the terminal one has returned its result
\* (or the error propagates): until then the nesting only grows.
C10_UnwindAfterTerminal ==
    depth' < depth =>
        \/ ret # NoResult
        \/ exc
        \/ (IsTerminal(frame[1]) /\ ret' # NoResult)

====
